---------------------------- MODULE Spec2Model ----------------------------
(***************************************************************************)
(* A model of mrcfile's MrcInterpreter (mrcinterpreter.py): one instance   *)
(* bound to one byte stream.  The stream is a sequence of bytes with a     *)
(* position; the header is the 1024-byte record with its fields at their   *)
(* MRC2014 offsets, decoded under the byte order the machine stamp gives.  *)
(* The three stages of _read() are three steps, so that the states between *)
(* the stages (and after a stage raised) are visible.                      *)
(***************************************************************************)
EXTENDS Integers, Sequences, FiniteSets, TLC

VARIABLES
    stream,           \* the bytes the stream holds
    pos,              \* the stream position
    closed,           \* the stream's `closed` attribute
    orig,             \* the bytes the stream held at construction (history)
    calls,            \* the stream calls issued by the last operation, in order
    permissive,       \* self._permissive
    read_only,        \* self._read_only
    header,           \* self._header:          None or Some(record)
    extended_header,  \* self._extended_header: None or Some(bytes)
    data,             \* self._data:            None or Some(record)
    warnings,         \* warnings emitted so far, in order
    pc,               \* where the instance is: new, hdr, ext, open, failed, dead
    op,               \* the last operation that ran
    raised,           \* the exception the last operation propagated, or "none"
    choice,           \* the outcome the stream picked where the code leaves it open
    entered,          \* what __enter__ returned to the open scope, or "no"
    mutated,          \* a region was changed in memory since it was read
    nops,             \* operations called on the instance since _read() returned
    nclose            \* calls of close() that returned

vars == << stream, pos, closed, orig, calls, permissive, read_only, header,
           extended_header, data, warnings, pc, op, raised, choice, entered,
           mutated, nops, nclose >>

-----------------------------------------------------------------------------
(* Bounds of the model. *)

\* the stream holds at most MaxTail bytes after the header
MaxTail == 4
\* nx ranges over -1 and 1..MaxDim
MaxDim == 2
\* nsymbt ranges over 0..MaxExt
MaxExt == 1
\* at most MaxOps operations are called on an instance after _read() returned
MaxOps == 2

-----------------------------------------------------------------------------
(* Optional values, sequences, arithmetic. *)

None == << >>
Some(x) == << x >>
Get(o) == o[1]

Min(a, b) == IF a < b THEN a ELSE b
Abs(a) == IF a < 0 THEN 0 - a ELSE a

Reverse(s) == [i \in 1..Len(s) |-> s[Len(s) + 1 - i]]

\* Python integers are unbounded; products are carried exactly up to Huge and
\* held at +-Huge beyond it (only their sign and their comparison with the
\* few bytes a stream holds are used).
Huge == 1073741824

Mul(a, b) ==
    IF a = 0 \/ b = 0 THEN 0
    ELSE IF Abs(a) > Huge \div Abs(b)
         THEN (IF (a < 0) = (b < 0) THEN Huge ELSE 0 - Huge)
         ELSE a * b

-----------------------------------------------------------------------------
(* The header record: HEADER_DTYPE, MAP_ID and the helpers of utils. *)

HEADER_SIZE == 1024

MAP_ID == << 77, 65, 80, 32 >>          \* b'MAP '

\* byte offsets of the fields the interpreter reads
FieldOffset == [nx |-> 0, ny |-> 4, nz |-> 8, mode |-> 12, nsymbt |-> 92,
                map |-> 208, machst |-> 212]

\* a 32-bit two's complement integer as four bytes in the given byte order
EncodeInt32(v, order) ==
    LET lo == v % 16777216
        hi == ((v - lo) \div 16777216) % 256
        le == << lo % 256, (lo \div 256) % 256, lo \div 65536, hi >>
    IN  IF order = "<" THEN le ELSE Reverse(le)

\* four bytes read as a 32-bit two's complement integer in the given byte order
DecodeInt32(b, order) ==
    LET le == IF order = "<" THEN b ELSE Reverse(b)
        top == IF le[4] >= 128 THEN le[4] - 256 ELSE le[4]
    IN  le[1] + 256 * le[2] + 65536 * le[3] + 16777216 * top

\* header.<name> for an integer field of a header record h = [bytes, order]
Field(h, name) ==
    DecodeInt32(SubSeq(h.bytes, FieldOffset[name] + 1, FieldOffset[name] + 4),
                h.order)

\* the machine stamps of the two byte orders, and one that is neither
MachineStamp == [le |-> << 68, 65, 0, 0 >>, be |-> << 17, 17, 0, 0 >>,
                 bad |-> << 0, 0, 0, 0 >>]

byte_order_from_machine_stamp(machst) ==
    IF machst[1] = 68 /\ machst[2] \in {68, 65} THEN "<"
    ELSE IF machst[1] = 17 /\ machst[2] = 17 THEN ">"
    ELSE "ValueError"

\* mode -> itemsize of the dtype; 0 stands for "no dtype for this mode"
data_dtype_from_header(h) ==
    LET mode == Field(h, "mode")
    IN  CASE mode = 0 -> 1        \* int8
          [] mode = 1 -> 2        \* int16
          [] mode = 2 -> 4        \* float32
          [] mode = 4 -> 8        \* complex64
          [] mode = 6 -> 2        \* uint16
          [] OTHER -> 0

data_shape_from_header(h) ==
    << Field(h, "nz"), Field(h, "ny"), Field(h, "nx") >>

\* the 1024 bytes of a header with the given fields, numbers in byte order wr
HeaderBytes(f, wr) ==
    LET put(i, off, b) == b[i - off]
        in(i, off) == i > off /\ i <= off + 4
    IN  [i \in 1..HEADER_SIZE |->
           CASE in(i, FieldOffset.nx)     -> put(i, FieldOffset.nx, EncodeInt32(f.nx, wr))
             [] in(i, FieldOffset.ny)     -> put(i, FieldOffset.ny, EncodeInt32(f.ny, wr))
             [] in(i, FieldOffset.nz)     -> put(i, FieldOffset.nz, EncodeInt32(f.nz, wr))
             [] in(i, FieldOffset.mode)   -> put(i, FieldOffset.mode, EncodeInt32(f.mode, wr))
             [] in(i, FieldOffset.nsymbt) -> put(i, FieldOffset.nsymbt, EncodeInt32(f.nsymbt, wr))
             [] in(i, FieldOffset.map)    -> put(i, FieldOffset.map, f.map)
             [] in(i, FieldOffset.machst) -> put(i, FieldOffset.machst, f.machst)
             [] OTHER -> 0]

-----------------------------------------------------------------------------
(* The stream: read(n), write(b), truncate() on a byte sequence. *)

\* iostream.read(n): at most n bytes from the position; everything left if n < 0
StreamRead(bytes, p, n) ==
    IF n < 0 THEN SubSeq(bytes, p + 1, Len(bytes))
    ELSE SubSeq(bytes, p + 1, Min(p + n, Len(bytes)))

\* iostream.write(b) at position p: overwrites, and extends past the end
StreamWrite(bytes, p, b) ==
    SubSeq(bytes, 1, p) \o b \o SubSeq(bytes, p + Len(b) + 1, Len(bytes))

\* iostream.truncate() at position p
StreamTruncate(bytes, p) == SubSeq(bytes, 1, p)


-----------------------------------------------------------------------------
(* The three stages of _read(), as functions of what they read.  Each gives *)
(* the exception the stage raises (or "none"), the warnings it emits and    *)
(* what it assigns.  Every failure is a ValueError in the source; here the  *)
(* failures are told apart by the place that raises.                        *)

\* the byte order permissive mode assumes under an unrecognised machine stamp
\* (variant: big-endian)
permissive_byte_order_big == ">"

permissive_byte_order == "<"

\* (variant of check_header: permissive mode does not consult the machine
\* stamp and always takes its fallback byte order)
check_header_permissive_ignoring_stamp(header_str, perm) ==
    LET map == SubSeq(header_str, FieldOffset.map + 1, FieldOffset.map + 4)
        machst == SubSeq(header_str, FieldOffset.machst + 1, FieldOffset.machst + 4)
        stamp == byte_order_from_machine_stamp(machst)
        w1 == IF map # MAP_ID THEN << "FormatMismatchError" >> ELSE << >>
        w2 == IF stamp = "ValueError" THEN << "UnknownByteOrderError" >> ELSE << >>
        byte_order == IF stamp = "ValueError" \/ perm THEN permissive_byte_order ELSE stamp
    IN  IF map # MAP_ID /\ ~perm
        THEN [raised |-> "FormatMismatchError", warns |-> << >>, header |-> None]
        ELSE IF stamp = "ValueError" /\ ~perm
        THEN [raised |-> "UnknownByteOrderError", warns |-> << >>, header |-> None]
        ELSE [raised |-> "none", warns |-> w1 \o w2,
              header |-> Some([bytes |-> header_str, order |-> byte_order])]

\* lines 136-164: the header record from 1024 bytes, the map ID check, the
\* byte order from the machine stamp
check_header(header_str, perm) ==
    LET map == SubSeq(header_str, FieldOffset.map + 1, FieldOffset.map + 4)
        machst == SubSeq(header_str, FieldOffset.machst + 1, FieldOffset.machst + 4)
        stamp == byte_order_from_machine_stamp(machst)
        w1 == IF map # MAP_ID THEN << "FormatMismatchError" >> ELSE << >>
        w2 == IF stamp = "ValueError" THEN << "UnknownByteOrderError" >> ELSE << >>
        byte_order == IF stamp = "ValueError" THEN permissive_byte_order ELSE stamp
    IN  IF map # MAP_ID /\ ~perm
        THEN [raised |-> "FormatMismatchError", warns |-> << >>, header |-> None]
        ELSE IF stamp = "ValueError" /\ ~perm
        THEN [raised |-> "UnknownByteOrderError", warns |-> << >>, header |-> None]
        ELSE [raised |-> "none", warns |-> w1 \o w2,
              header |-> Some([bytes |-> header_str, order |-> byte_order])]

\* (variant of _read_header: permissive mode warns about a short header and
\* goes on with the bytes it has, zero-filled)
_read_header_short_downgraded(header_str, perm) ==
    IF Len(header_str) < HEADER_SIZE /\ ~perm
    THEN [raised |-> "TruncatedInputError", warns |-> << >>, header |-> None]
    ELSE IF Len(header_str) < HEADER_SIZE
    THEN LET padded == [i \in 1..HEADER_SIZE |->
                          IF i <= Len(header_str) THEN header_str[i] ELSE 0]
             r == check_header(padded, perm)
         IN  [r EXCEPT !.warns = << "TruncatedInputError" >> \o r.warns]
    ELSE check_header(header_str, perm)

\* _read_header on the bytes read(1024) returned
_read_header(header_str, perm) ==
    IF Len(header_str) < HEADER_SIZE
    THEN [raised |-> "TruncatedInputError", warns |-> << >>, header |-> None]
    ELSE check_header(header_str, perm)

\* the bytes the extended-header stage asks the stream for
ext_header_nbytes(h) == Field(h, "nsymbt")

\* itemsize x product of the shape (lines 195-197)
data_nbytes(h) ==
    LET shape == data_shape_from_header(h)
    IN  Mul(Mul(Mul(data_dtype_from_header(h), shape[1]), shape[2]), shape[3])

\* numpy's reshape of n elements to shape: the resulting shape, or << >> when
\* it raises.  One negative length is inferred from the others; two are an
\* error; without one the product must be n.
Reshape(n, shape) ==
    LET neg == {i \in 1..3 : shape[i] < 0}
        known == Mul(Mul(IF 1 \in neg THEN 1 ELSE shape[1],
                         IF 2 \in neg THEN 1 ELSE shape[2]),
                     IF 3 \in neg THEN 1 ELSE shape[3])
    IN  IF Cardinality(neg) > 1 THEN << >>
        ELSE IF Cardinality(neg) = 1
        THEN IF known = 0 \/ n % known # 0 THEN << >>
             ELSE [i \in 1..3 |-> IF i \in neg THEN n \div known ELSE shape[i]]
        ELSE IF known = n THEN shape ELSE << >>

\* (variant of invalid_mode_result: permissive mode raises too)
invalid_mode_raises(perm, p) ==
    [raised |-> "InvalidModeError", warns |-> << >>,
     data |-> None, pos |-> p, calls |-> << >>]

\* lines 184-191: no dtype for the header's mode; nothing is read
invalid_mode_result(perm, p) ==
    IF perm
    THEN [raised |-> "none", warns |-> << "InvalidModeError" >>,
          data |-> None, pos |-> p, calls |-> << >>]
    ELSE [raised |-> "InvalidModeError", warns |-> << >>,
          data |-> None, pos |-> p, calls |-> << >>]

\* lines 201-209: read(nbytes) returned fewer than nbytes bytes
short_read_result(perm, p2) ==
    IF perm
    THEN [raised |-> "none", warns |-> << "TruncatedDataError" >>,
          data |-> None, pos |-> p2, calls |-> << "read" >>]
    ELSE [raised |-> "TruncatedDataError", warns |-> << >>,
          data |-> None, pos |-> p2, calls |-> << "read" >>]

\* line 199 on a stream whose read(n) rejects n < -1
read_error_result(p) ==
    [raised |-> "StreamError", warns |-> << >>,
     data |-> None, pos |-> p, calls |-> << "read" >>]

\* lines 211-212: np.frombuffer(data_bytes, dtype).reshape(shape); frombuffer
\* raises unless the bytes are whole elements, reshape unless the shape fits
materialise(h, data_bytes, p2) ==
    LET itemsize == data_dtype_from_header(h)
        shape == IF Len(data_bytes) % itemsize = 0
                 THEN Reshape(Len(data_bytes) \div itemsize, data_shape_from_header(h))
                 ELSE << >>
    IN  IF shape = << >>
        THEN [raised |-> "ReshapeError", warns |-> << >>,
              data |-> None, pos |-> p2, calls |-> << "read" >>]
        ELSE [raised |-> "none", warns |-> << >>,
              data |-> Some([bytes |-> data_bytes, itemsize |-> itemsize,
                             shape |-> shape]),
              pos |-> p2, calls |-> << "read" >>]

\* (variant of _read_data: the length of what was read is not checked)
_read_data_length_unchecked(h, bytes, p, perm, ch) ==
    LET nbytes == data_nbytes(h)
        data_bytes == StreamRead(bytes, p, nbytes)
    IN  IF data_dtype_from_header(h) = 0 THEN invalid_mode_result(perm, p)
        ELSE IF nbytes < -1 /\ ch = "raise" THEN read_error_result(p)
        ELSE materialise(h, data_bytes, p + Len(data_bytes))

\* (variant of _read_data: permissive mode turns a failing reshape into a
\* warning and absent data)
_read_data_shape_downgraded(h, bytes, p, perm, ch) ==
    LET nbytes == data_nbytes(h)
        data_bytes == StreamRead(bytes, p, nbytes)
        p2 == p + Len(data_bytes)
        m == materialise(h, data_bytes, p2)
    IN  IF data_dtype_from_header(h) = 0 THEN invalid_mode_result(perm, p)
        ELSE IF nbytes < -1 /\ ch = "raise"
        THEN (IF perm THEN [read_error_result(p) EXCEPT !.raised = "none",
                                !.warns = << "InvalidShapeError" >>]
              ELSE read_error_result(p))
        ELSE IF Len(data_bytes) < nbytes THEN short_read_result(perm, p2)
        ELSE IF perm /\ m.raised # "none"
        THEN [m EXCEPT !.raised = "none", !.warns = << "InvalidShapeError" >>]
        ELSE m

\* (variant of _read_data: permissive mode skips over the rest of the stream
\* when the mode has no dtype)
_read_data_skipping_block(h, bytes, p, perm, ch) ==
    LET nbytes == data_nbytes(h)
        data_bytes == StreamRead(bytes, p, nbytes)
        p2 == p + Len(data_bytes)
    IN  IF data_dtype_from_header(h) = 0
        THEN [invalid_mode_result(perm, p) EXCEPT
                !.pos = IF perm THEN Len(bytes) ELSE p,
                !.calls = IF perm THEN << "read" >> ELSE << >>]
        ELSE IF nbytes < -1 /\ ch = "raise" THEN read_error_result(p)
        ELSE IF Len(data_bytes) < nbytes THEN short_read_result(perm, p2)
        ELSE materialise(h, data_bytes, p2)

\* _read_data with the stream at position p.  ch is the stream's answer to
\* read(n) for n < -1, which the stream interface leaves open: "all"
\* (everything left) or "raise".
_read_data(h, bytes, p, perm, ch) ==
    LET nbytes == data_nbytes(h)
        data_bytes == StreamRead(bytes, p, nbytes)
        p2 == p + Len(data_bytes)
    IN  IF data_dtype_from_header(h) = 0 THEN invalid_mode_result(perm, p)
        ELSE IF nbytes < -1 /\ ch = "raise" THEN read_error_result(p)
        ELSE IF Len(data_bytes) < nbytes THEN short_read_result(perm, p2)
        ELSE materialise(h, data_bytes, p2)

\* _read() on a stream holding bytes, from position 0: the three stages in
\* order, each starting where the one before left the stream, the first
\* that raises ending it.  che and chd are the stream's answers to read(n)
\* for n < -1 in the extended-header and the data stage.
_read(bytes, perm, che, chd) ==
    LET header_str == StreamRead(bytes, 0, HEADER_SIZE)
        r1 == _read_header(header_str, perm)
    IN  IF r1.raised # "none"
        THEN [raised |-> r1.raised, warns |-> r1.warns, header |-> None,
              extended_header |-> None, data |-> None, pos |-> Len(header_str)]
        ELSE
          LET h == Get(r1.header)
              n == ext_header_nbytes(h)
              ext_header_str == StreamRead(bytes, HEADER_SIZE, n)
          IN  IF n < -1 /\ che = "raise"
              THEN [raised |-> "StreamError", warns |-> r1.warns,
                    header |-> r1.header, extended_header |-> None,
                    data |-> None, pos |-> HEADER_SIZE]
              ELSE
                LET r3 == _read_data(h, bytes, HEADER_SIZE + Len(ext_header_str),
                                     perm, chd)
                IN  [raised |-> r3.raised, warns |-> r1.warns \o r3.warns,
                     header |-> r1.header,
                     extended_header |-> Some(ext_header_str),
                     data |-> r3.data, pos |-> r3.pos]

-----------------------------------------------------------------------------
(* flush() and close(), as functions of the current state: the stream's     *)
(* bytes and position afterwards, the stream calls issued, what is raised.  *)

\* what write() of np.ascontiguousarray(None) puts on the stream when the
\* stream takes the object array's buffer: the bytes of a pointer, whose
\* values the program does not determine (-1 marks such a byte)
PointerBytes == << -1, -1, -1, -1, -1, -1, -1, -1 >>

NoFlush == [bytes |-> stream, pos |-> pos, calls |-> << >>, raised |-> "none"]

\* lines 232-237 with seek() leaving the stream at p0.  ch is the stream's
\* answer to write() of the array made from absent data: "raise", or
\* "write" when it takes the array's buffer.
write_regions(p0, ch) ==
    IF closed
    THEN [NoFlush EXCEPT !.calls = << "seek" >>, !.raised = "ClosedStreamError"]
    ELSE IF header = None
    THEN [NoFlush EXCEPT !.pos = p0, !.calls = << "seek", "write" >>,
                         !.raised = "TypeError"]
    ELSE
      LET b1 == StreamWrite(stream, p0, Get(header).bytes)
          p1 == p0 + HEADER_SIZE
      IN  IF extended_header = None
          THEN [bytes |-> b1, pos |-> p1,
                calls |-> << "seek", "write", "write" >>, raised |-> "TypeError"]
          ELSE
            LET b2 == StreamWrite(b1, p1, Get(extended_header))
                p2 == p1 + Len(Get(extended_header))
                d == IF data = None THEN PointerBytes ELSE Get(data).bytes
                b3 == StreamWrite(b2, p2, d)
                p3 == p2 + Len(d)
            IN  IF data = None /\ ch = "raise"
                THEN [bytes |-> b2, pos |-> p2,
                      calls |-> << "seek", "write", "write", "write" >>,
                      raised |-> "TypeError"]
                ELSE [bytes |-> StreamTruncate(b3, p3), pos |-> p3,
                      calls |-> << "seek", "write", "write", "write",
                                   "truncate", "flush" >>,
                      raised |-> "none"]

\* (variant of flush: the read-only flag is not consulted)
flush_when_read_only(ch) == write_regions(0, ch)

\* (variant of flush: no seek to the start of the stream)
flush_without_seek(ch) == IF read_only THEN NoFlush ELSE write_regions(pos, ch)

flush(ch) == IF read_only THEN NoFlush ELSE write_regions(0, ch)

\* (variant of close: the header is not cleared)
close_keeping_header(ch) ==
    LET f == IF header # None /\ ~closed THEN flush(ch) ELSE NoFlush
        ok == f.raised = "none"
    IN  [bytes |-> f.bytes, pos |-> f.pos, calls |-> f.calls, raised |-> f.raised,
         header |-> header,
         extended_header |-> IF ok THEN None ELSE extended_header,
         data |-> IF ok THEN None ELSE data]

\* close(): flush() if the header is set and the stream is open, then the
\* three regions are released (unless flush() raised: nothing after it runs)
close(ch) ==
    LET f == IF header # None /\ ~closed THEN flush(ch) ELSE NoFlush
        ok == f.raised = "none"
    IN  [bytes |-> f.bytes, pos |-> f.pos, calls |-> f.calls, raised |-> f.raised,
         header |-> IF ok THEN None ELSE header,
         extended_header |-> IF ok THEN None ELSE extended_header,
         data |-> IF ok THEN None ELSE data]

-----------------------------------------------------------------------------
(* The streams an instance is constructed on. *)

\* the bytes after the header: t bytes, all different
TailBytes(t) == [i \in 1..t |-> 100 + i]

\* mode 3 has no dtype
ModeValues == {0, 1, 3}

\* lengths of a stream that ends inside the header
ShortHeaderLens == {0, HEADER_SIZE - 1}

Init ==
    \E perm \in BOOLEAN, ro \in BOOLEAN,
       mapok \in BOOLEAN, stamp \in {"le", "be", "bad"}, wr \in {"<", ">"},
       mode \in ModeValues, nx \in {-1} \cup (1..MaxDim), ny \in {-1, 1},
       nsymbt \in {-2, -1} \cup (0..MaxExt), t \in 0..MaxTail,
       hlen \in ShortHeaderLens \cup {HEADER_SIZE} :
      LET f == [nx |-> nx, ny |-> ny, nz |-> 1, mode |-> mode, nsymbt |-> nsymbt,
                map |-> IF mapok THEN MAP_ID ELSE << 77, 65, 80, 0 >>,
                machst |-> MachineStamp[stamp]]
          full == HeaderBytes(f, wr) \o TailBytes(t)
      IN  \* a recognised stamp is the stamp of the order the numbers are in
          /\ stamp = "le" => wr = "<"
          /\ stamp = "be" => wr = ">"
          \* streams that fail a header check carry one small data block
          /\ (~mapok \/ stamp = "bad" \/ hlen < HEADER_SIZE)
                => (nx = 1 /\ ny = 1 /\ nsymbt = 0 /\ t <= 1 /\ mode # 1)
          /\ hlen < HEADER_SIZE => (t = 0 /\ mapok /\ stamp = "le" /\ mode = 0)
          \* a negative nsymbt comes with an otherwise plain header
          /\ nsymbt < 0 => (mapok /\ stamp # "bad" /\ hlen = HEADER_SIZE
                             /\ mode = 0 /\ nx = 1 /\ ny = 1)
          /\ stream = SubSeq(full, 1, Min(hlen, HEADER_SIZE) + (IF hlen < HEADER_SIZE THEN 0 ELSE t))
          /\ orig = stream
          /\ pos = 0
          /\ closed = FALSE
          /\ calls = << >>
          /\ permissive = perm
          /\ read_only = ro
          /\ header = None
          /\ extended_header = None
          /\ data = None
          /\ warnings = << >>
          /\ pc = "new"
          /\ op = "__init__"
          /\ raised = "none"
          /\ choice = "none"
          /\ entered = "no"
          /\ mutated = FALSE
          /\ nops = 0
          /\ nclose = 0

-----------------------------------------------------------------------------
(* _read(): the three stages, in order. *)

ReadHeader ==
    /\ pc = "new"
    /\ LET header_str == StreamRead(stream, pos, HEADER_SIZE)
           r == _read_header(header_str, permissive)
       IN  /\ pos' = pos + Len(header_str)
           /\ calls' = << "read" >>
           /\ header' = r.header
           /\ warnings' = warnings \o r.warns
           /\ raised' = r.raised
           /\ pc' = IF r.raised = "none" THEN "hdr" ELSE "failed"
    /\ op' = "_read_header"
    /\ UNCHANGED << stream, closed, orig, permissive, read_only, extended_header,
                    data, choice, entered, mutated, nops, nclose >>

\* (variant of ReadExtendedHeader: a read shorter than nsymbt is an error)
ReadExtendedHeader_length_checked ==
    /\ pc = "hdr"
    /\ \E ch \in {"all", "raise"} :
         LET n == ext_header_nbytes(Get(header))
             ext_header_str == StreamRead(stream, pos, n)
         IN  /\ (n >= -1) => ch = "all"
             /\ choice' = ch
             /\ calls' = << "read" >>
             /\ IF ch = "raise"
                THEN /\ raised' = "StreamError"
                     /\ pc' = "failed"
                     /\ UNCHANGED << pos, extended_header >>
                ELSE IF Len(ext_header_str) < n
                THEN /\ raised' = "TruncatedInputError"
                     /\ pc' = "failed"
                     /\ pos' = pos + Len(ext_header_str)
                     /\ UNCHANGED extended_header
                ELSE /\ raised' = "none"
                     /\ pc' = "ext"
                     /\ pos' = pos + Len(ext_header_str)
                     /\ extended_header' = Some(ext_header_str)
    /\ op' = "_read_extended_header"
    /\ UNCHANGED << stream, closed, orig, permissive, read_only, header, data,
                    warnings, entered, mutated, nops, nclose >>

\* iostream.read(n) for n < -1 is "everything left" on some streams and an
\* error on others
ReadExtendedHeader ==
    /\ pc = "hdr"
    /\ \E ch \in {"all", "raise"} :
         LET n == ext_header_nbytes(Get(header))
             ext_header_str == StreamRead(stream, pos, n)
         IN  /\ (n >= -1) => ch = "all"
             /\ choice' = ch
             /\ calls' = << "read" >>
             /\ IF ch = "raise"
                THEN /\ raised' = "StreamError"
                     /\ pc' = "failed"
                     /\ UNCHANGED << pos, extended_header >>
                ELSE /\ raised' = "none"
                     /\ pc' = "ext"
                     /\ pos' = pos + Len(ext_header_str)
                     /\ extended_header' = Some(ext_header_str)
    /\ op' = "_read_extended_header"
    /\ UNCHANGED << stream, closed, orig, permissive, read_only, header, data,
                    warnings, entered, mutated, nops, nclose >>

ReadData ==
    /\ pc = "ext"
    /\ \E ch \in {"all", "raise"} :
         LET r == _read_data(Get(header), stream, pos, permissive, ch)
         IN  /\ (data_dtype_from_header(Get(header)) = 0
                   \/ data_nbytes(Get(header)) >= -1) => ch = "all"
             /\ choice' = ch
             /\ pos' = r.pos
             /\ calls' = r.calls
             /\ data' = r.data
             /\ warnings' = warnings \o r.warns
             /\ raised' = r.raised
             /\ pc' = IF r.raised = "none" THEN "open" ELSE "failed"
    /\ op' = "_read_data"
    /\ UNCHANGED << stream, closed, orig, permissive, read_only, header,
                    extended_header, entered, mutated, nops, nclose >>

-----------------------------------------------------------------------------
(* The operations on an instance whose constructor returned. *)

\* close() as called by the caller, by __exit__ or by __del__
ApplyClose(c) ==
    /\ stream' = c.bytes
    /\ pos' = c.pos
    /\ calls' = c.calls
    /\ header' = c.header
    /\ extended_header' = c.extended_header
    /\ data' = c.data
    /\ nclose' = IF c.raised = "none" THEN nclose + 1 ELSE nclose

Flush ==
    /\ pc = "open" /\ nops < MaxOps
    /\ header # None
    /\ \E ch \in {"write", "raise"} :
         LET f == flush(ch)
         IN  /\ (data # None \/ read_only \/ closed) => ch = "write"
             /\ choice' = ch
             /\ stream' = f.bytes
             /\ pos' = f.pos
             /\ calls' = f.calls
             /\ raised' = f.raised
    /\ op' = "flush"
    /\ nops' = nops + 1
    /\ UNCHANGED << closed, orig, permissive, read_only, header, extended_header,
                    data, warnings, pc, entered, mutated, nclose >>

Close ==
    /\ pc = "open" /\ nops < MaxOps
    /\ \E ch \in {"write", "raise"} :
         LET c == close(ch)
         IN  /\ (header = None \/ data # None \/ read_only \/ closed) => ch = "write"
             /\ choice' = ch
             /\ ApplyClose(c)
             /\ raised' = c.raised
    /\ op' = "close"
    /\ nops' = nops + 1
    /\ UNCHANGED << closed, orig, permissive, read_only, warnings, pc, entered,
                    mutated >>

\* __enter__: returns self
Enter ==
    /\ pc = "open" /\ nops < MaxOps
    /\ entered = "no"
    /\ entered' = "self"
    /\ op' = "__enter__"
    /\ raised' = "none"
    /\ calls' = << >>
    /\ nops' = nops + 1
    /\ UNCHANGED << stream, pos, closed, orig, permissive, read_only, header,
                    extended_header, data, warnings, pc, choice, mutated, nclose >>

\* __exit__: close(), whether the body of the scope failed or not; it returns
\* None, so a failure of the body goes on propagating
Exit ==
    /\ pc = "open" /\ nops < MaxOps
    /\ entered = "self"
    /\ \E ch \in {"write", "raise"}, bodyFailed \in BOOLEAN :
         LET c == close(ch)
         IN  /\ (header = None \/ data # None \/ read_only \/ closed) => ch = "write"
             /\ choice' = ch
             /\ ApplyClose(c)
             /\ raised' = IF c.raised # "none" THEN c.raised
                          ELSE IF bodyFailed THEN "BodyError" ELSE "none"
    /\ entered' = "no"
    /\ op' = "__exit__"
    /\ nops' = nops + 1
    /\ UNCHANGED << closed, orig, permissive, read_only, warnings, pc, mutated >>

\* (variant of Del: what close() raises reaches the caller)
Del_propagating ==
    /\ pc \in {"open", "failed"}
    /\ \E ch \in {"write", "raise"} :
         LET c == close(ch)
         IN  /\ (header = None \/ extended_header = None \/ data # None
                   \/ read_only \/ closed) => ch = "write"
             /\ choice' = ch
             /\ ApplyClose(c)
             /\ raised' = c.raised
    /\ pc' = "dead"
    /\ op' = "__del__"
    /\ UNCHANGED << closed, orig, permissive, read_only, warnings, entered,
                    mutated, nops >>

\* __del__: close(), every exception swallowed.  It also runs on an instance
\* whose constructor raised.
Del ==
    /\ pc \in {"open", "failed"}
    /\ \E ch \in {"write", "raise"} :
         LET c == close(ch)
         IN  /\ (header = None \/ extended_header = None \/ data # None
                   \/ read_only \/ closed) => ch = "write"
             /\ choice' = ch
             /\ ApplyClose(c)
    /\ raised' = "none"
    /\ pc' = "dead"
    /\ op' = "__del__"
    /\ UNCHANGED << closed, orig, permissive, read_only, warnings, entered,
                    mutated, nops >>

\* the caller changes the first byte of the data array in place
SetData ==
    /\ pc = "open" /\ nops < MaxOps
    /\ ~read_only /\ ~mutated
    /\ data # None /\ Len(Get(data).bytes) > 0
    /\ data' = Some([Get(data) EXCEPT !.bytes[1] = 238])
    /\ mutated' = TRUE
    /\ op' = "set_data"
    /\ raised' = "none"
    /\ calls' = << >>
    /\ nops' = nops + 1
    /\ UNCHANGED << stream, pos, closed, orig, permissive, read_only, header,
                    extended_header, warnings, pc, choice, entered, nclose >>

\* the owner of the stream closes it
StreamClose ==
    /\ pc = "open" /\ nops < MaxOps
    /\ ~closed
    /\ closed' = TRUE
    /\ op' = "stream.close"
    /\ raised' = "none"
    /\ calls' = << >>
    /\ nops' = nops + 1
    /\ UNCHANGED << stream, pos, orig, permissive, read_only, header,
                    extended_header, data, warnings, pc, choice, entered,
                    mutated, nclose >>

Next ==
    \/ ReadHeader
    \/ ReadExtendedHeader
    \/ ReadData
    \/ Flush
    \/ Close
    \/ Enter
    \/ Exit
    \/ Del
    \/ SetData
    \/ StreamClose

Spec == Init /\ [][Next]_vars

-----------------------------------------------------------------------------
(* What the stream held at construction, read as the format lays it out. *)

\* the header record the format defines for the original bytes: the first
\* 1024 bytes under the byte order of their machine stamp
OrigStamp ==
    byte_order_from_machine_stamp(
        SubSeq(orig, FieldOffset.machst + 1, FieldOffset.machst + 4))
OrigMagicOK == SubSeq(orig, FieldOffset.map + 1, FieldOffset.map + 4) = MAP_ID
OrigStampOK == OrigStamp # "ValueError"
OrigHeader ==
    [bytes |-> SubSeq(orig, 1, HEADER_SIZE),
     order |-> IF OrigStampOK THEN OrigStamp ELSE "<"]

\* a valid stream: a whole header with the magic and a recognised stamp, a
\* mode with a dtype, nsymbt bytes of extended header, exactly
\* itemsize x product(shape) bytes of data, nothing after
ValidContent ==
    /\ Len(orig) >= HEADER_SIZE
    /\ OrigMagicOK /\ OrigStampOK
    /\ data_dtype_from_header(OrigHeader) # 0
    /\ Field(OrigHeader, "nsymbt") >= 0
    /\ data_nbytes(OrigHeader) >= 0
    /\ Len(orig) = HEADER_SIZE + Field(OrigHeader, "nsymbt") + data_nbytes(OrigHeader)

Released == header = None /\ extended_header = None /\ data = None

-----------------------------------------------------------------------------
(* The claims. *)

\* C1: a read-only instance never issues a write, seek or truncate call on
\* the stream, whatever operation runs (the stages of open, flush, close,
\* scope exit, finalization): every call it issues is a read, and the
\* stream's bytes stay what they were at construction.
C1_ReadOnlyNeverWrites ==
    read_only =>
        /\ \A i \in 1..Len(calls) : calls[i] = "read"
        /\ stream = orig

\* a read-only, opened instance has been flushed and then closed
C1_Witness ==
    /\ read_only /\ op = "close" /\ nops = 2 /\ nclose = 1
    /\ ValidContent /\ Len(orig) > HEADER_SIZE /\ Released

\* C2: round trip.  On a writable instance opened on a valid stream, a
\* flush() with no region changed in memory leaves the stream's bytes
\* identical to the original bytes.
C2_RoundTrip ==
    (op = "flush" /\ ~read_only /\ ~mutated /\ ~closed /\ ValidContent)
        => (raised = "none" /\ stream = orig)

\* a big-endian stream with an extended header and a two-byte data block has
\* been opened and flushed
C2_Witness ==
    /\ op = "flush" /\ ~read_only /\ ~mutated /\ ~closed /\ ValidContent
    /\ OrigStamp = ">"
    /\ Len(Get(extended_header)) = 1
    /\ data # None /\ Len(Get(data).bytes) = 2
    /\ calls = << "seek", "write", "write", "write", "truncate", "flush" >>

\* C3: close() is idempotent.  A close() called after a close() that
\* returned raises nothing, issues no call on the stream (so no flush and no
\* seek, write or truncate), leaves the stream as it is, and the header, the
\* extended header and the data stay released.
C3_CloseIdempotent ==
    [][(Close /\ nclose >= 1) =>
          /\ raised' = "none"
          /\ calls' = << >>
          /\ stream' = stream /\ pos' = pos
          /\ Released /\ Released']_vars

\* a writable instance, opened on a whole stream, has been closed twice
C3_Witness ==
    /\ op = "close" /\ nclose = 2 /\ ~read_only /\ ~closed
    /\ Len(orig) > HEADER_SIZE /\ stream = orig

\* C4: leaving the scope always releases the instance.  __enter__ returns
\* the instance itself, and after __exit__ (the body failed or not) the
\* header, the extended header and the data are all released, whatever state
\* open left the instance in.
C4_ScopeExitReleases ==
    /\ op = "__enter__" => entered = "self"
    /\ op = "__exit__" => Released

\* C5: an instance whose open ended in a hard failure of a stage is not
\* Open: its header is null.
C5_FailedOpenNotOpen ==
    pc = "failed" => header = None

\* C6: a truncated header is always fatal.  On a stream that yields fewer
\* than 1024 bytes at the header read, the header stage raises the
\* truncated-input error in strict and in permissive mode alike, no warning
\* is emitted in its place, and the header stays null from then on.
C6_TruncatedHeaderFatal ==
    (Len(orig) < HEADER_SIZE /\ pc # "new") =>
        /\ pc \in {"failed", "dead"}
        /\ header = None
        /\ warnings = << >>
        /\ op = "_read_header" => raised = "TruncatedInputError"

\* a permissive instance has read a header one byte short
C6_Witness ==
    /\ op = "_read_header" /\ permissive /\ Len(orig) = HEADER_SIZE - 1
    /\ raised = "TruncatedInputError" /\ pc = "failed"

\* the warnings the data stage emitted (the header stage emits only the
\* magic and the byte-order warning)
DataWarnings ==
    SelectSeq(warnings,
              LAMBDA w : w \notin {"FormatMismatchError", "UnknownByteOrderError"})

\* where the data stage starts reading, and the bytes the stream holds there
DataStart == HEADER_SIZE + Len(Get(extended_header))
Remaining == Len(orig) - DataStart

\* C7: unrecognised mode.  When the header's mode has no dtype, the data
\* stage of a strict open raises the invalid-mode error; that of a
\* permissive open returns with data absent and exactly one warning (the
\* invalid-mode one), the header and the extended header are the bytes read
\* from the stream, and the data stage reads nothing: it issues no call on
\* the stream and the position stays at the end of the extended header.
C7_UnrecognisedMode ==
    (op = "_read_data" /\ data_dtype_from_header(Get(header)) = 0) =>
        /\ data = None
        /\ stream = orig
        /\ IF permissive
           THEN /\ pc = "open" /\ raised = "none"
                /\ DataWarnings = << "InvalidModeError" >>
                /\ warnings[Len(warnings)] = "InvalidModeError"
                /\ Get(header).bytes = SubSeq(orig, 1, HEADER_SIZE)
                /\ Get(extended_header) = SubSeq(orig, HEADER_SIZE + 1, pos)
                /\ Len(Get(extended_header))
                     = Min(Field(Get(header), "nsymbt"), Len(orig) - HEADER_SIZE)
                /\ pos = DataStart
                /\ calls = << >>
           ELSE /\ pc = "failed" /\ raised = "InvalidModeError"
                /\ warnings = << >>

\* a permissive open met mode 3 after a one-byte extended header, with bytes
\* left in the stream that the data stage did not read
C7_Witness ==
    /\ op = "_read_data" /\ permissive /\ pc = "open"
    /\ Field(Get(header), "mode") = 3
    /\ Len(Get(extended_header)) = 1
    /\ pos < Len(orig)
    /\ data = None

\* C8: truncated data.  When the stream holds fewer bytes after the extended
\* header than itemsize x product(shape), the data stage of a strict open
\* raises the truncated-data error and that of a permissive open returns
\* with data absent and one warning; data is never made from a short read.
C8_TruncatedData ==
    /\ (op = "_read_data" /\ data_dtype_from_header(Get(header)) # 0
          /\ Remaining < data_nbytes(Get(header))) =>
            /\ data = None
            /\ IF permissive
               THEN /\ pc = "open" /\ raised = "none"
                    /\ DataWarnings = << "TruncatedDataError" >>
               ELSE /\ pc = "failed" /\ raised = "TruncatedDataError"
                    /\ warnings = << >>
    /\ data # None => Len(Get(data).bytes) >= data_nbytes(Get(header))

\* a permissive open read a part of the data block its header declares
C8_Witness ==
    /\ op = "_read_data" /\ permissive /\ pc = "open"
    /\ data_dtype_from_header(Get(header)) # 0
    /\ Remaining > 0 /\ Remaining < data_nbytes(Get(header))
    /\ pos = Len(orig)
    /\ data = None

\* C9: the magic check and the byte-order check are independent.  For a
\* whole header, strict decoding fails exactly when at least one of the two
\* checks fails; permissive decoding always succeeds, with one warning for
\* each failing check, under little-endian when the stamp is unrecognised
\* and under the stamp's byte order otherwise.
C9_HeaderChecksIndependent ==
    (op = "_read_header" /\ Len(orig) >= HEADER_SIZE) =>
        LET bad == ~OrigMagicOK \/ ~OrigStampOK
            expected ==
                (IF OrigMagicOK THEN << >> ELSE << "FormatMismatchError" >>)
                \o (IF OrigStampOK THEN << >> ELSE << "UnknownByteOrderError" >>)
        IN  IF permissive
            THEN /\ pc = "hdr" /\ raised = "none"
                 /\ warnings = expected
                 /\ header # None
                 /\ Get(header).bytes = SubSeq(orig, 1, HEADER_SIZE)
                 /\ Get(header).order = IF OrigStampOK THEN OrigStamp ELSE "<"
            ELSE /\ (pc = "failed") <=> bad
                 /\ warnings = << >>
                 /\ bad => (header = None
                            /\ raised \in {"FormatMismatchError", "UnknownByteOrderError"})
                 /\ ~bad => (pc = "hdr" /\ raised = "none" /\ header # None
                             /\ Get(header).order = OrigStamp)

\* a permissive instance decoded a header that fails both checks
C9_Witness ==
    /\ op = "_read_header" /\ permissive /\ Len(orig) >= HEADER_SIZE
    /\ ~OrigMagicOK /\ ~OrigStampOK
    /\ Len(warnings) = 2 /\ pc = "hdr"

\* the header's dimension fields derive no valid shape: the derived byte
\* length is negative, or that many bytes do not reshape to the shape
ShapeInvalid ==
    LET h == Get(header)
    IN  \/ data_nbytes(h) < 0
        \/ Reshape(data_nbytes(h) \div data_dtype_from_header(h),
                   data_shape_from_header(h)) = << >>

FlushCalls == << "seek", "write", "write", "write", "truncate", "flush" >>

\* the bytes flush() hands to write() for the data
DataBytesWritten == IF data = None THEN PointerBytes ELSE Get(data).bytes

\* C11: on a writable Open instance flush() issues exactly seek(0),
\* write(header), write(extended header), write(data), truncate(), flush(),
\* in this order, so that afterwards the stream's length is
\* 1024 + len(extended header) + len(data bytes) and the position is its end.
C11_FlushCallsAndLength ==
    (op = "flush" /\ ~read_only /\ ~closed) =>
        /\ calls = FlushCalls
        /\ raised = "none"
        /\ Len(stream) = HEADER_SIZE + Len(Get(extended_header))
                           + Len(DataBytesWritten)
        /\ pos = Len(stream)

C13_CloseFlushesThenReleases ==
    [][Close =>
          /\ (calls' # << >>) <=> (header # None /\ ~closed /\ ~read_only)
          /\ Released'
          /\ (header # None /\ closed) => (calls' = << >> /\ raised' = "none")]_vars

\* the bytes the stream holds after the header
AfterHeader == Len(orig) - HEADER_SIZE

\* C14 (as stated): the extended-header stage reads
\* min(nsymbt, bytes remaining after the header) bytes and never fails or
\* warns, in either mode: an empty region for nsymbt = 0, the bytes
\* available when fewer than nsymbt remain, and the data stage starts at the
\* position this leaves.
C14_ExtendedHeaderRead ==
    (op = "_read_extended_header") =>
        /\ raised = "none" /\ pc = "ext" /\ extended_header # None
        /\ DataWarnings = << >>
        /\ Len(Get(extended_header)) = Min(Field(Get(header), "nsymbt"), AfterHeader)
        /\ Get(extended_header) = SubSeq(orig, HEADER_SIZE + 1, pos)
        /\ pos = HEADER_SIZE + Len(Get(extended_header))

\* C14 (amended): the extended-header stage never warns.  For nsymbt >= 0
\* it never fails and reads min(nsymbt, bytes remaining after the header)
\* bytes: an empty region for nsymbt = 0, the bytes available when fewer
\* than nsymbt remain, and the data stage starts at the position this
\* leaves.  For nsymbt < 0 it reads everything left in the stream, or, for
\* nsymbt < -1 on a stream whose read() rejects such a length, open fails
\* with the stream's error in both modes.
C14_ExtendedHeaderReadSigned ==
    (op = "_read_extended_header") =>
        LET n == Field(Get(header), "nsymbt")
            got == IF n >= 0 THEN Min(n, AfterHeader) ELSE AfterHeader
        IN  /\ DataWarnings = << >>
            /\ Len(warnings) <= 2
            /\ (n >= -1) => raised = "none"
            /\ (raised = "none") =>
                 /\ pc = "ext"
                 /\ extended_header = Some(SubSeq(orig, HEADER_SIZE + 1, HEADER_SIZE + got))
                 /\ pos = HEADER_SIZE + got
            /\ (raised # "none") =>
                 /\ n < -1 /\ raised = "StreamError" /\ pc = "failed"
                 /\ extended_header = None /\ pos = HEADER_SIZE

\* a header declaring an extended header that the stream does not hold: the
\* stage came back with an empty region
C14_Witness ==
    /\ op = "_read_extended_header" /\ raised = "none"
    /\ Field(Get(header), "nsymbt") >= 1 /\ AfterHeader = 0
    /\ extended_header = Some(<< >>) /\ pos = HEADER_SIZE

\* C15: whenever open leaves data present, the data stage consumed
\* itemsize(dtype(header)) x product(shape(header)) bytes of the stream and
\* the data block holds exactly those bytes with the dtype and the shape the
\* header gives, in strict and permissive mode alike.
C15_DataBytesMatchHeader ==
    (op = "_read_data" /\ pc = "open" /\ data # None) =>
        LET h == Get(header)
            d == Get(data)
        IN  /\ pos - DataStart = data_nbytes(h)
            /\ Len(d.bytes) = data_nbytes(h)
            /\ d.bytes = SubSeq(orig, DataStart + 1, pos)
            /\ d.itemsize = data_dtype_from_header(h)
            /\ d.shape = data_shape_from_header(h)

\* the last operation's stream calls stopped part-way through flush()
Interrupted == calls # << >> /\ calls # FlushCalls

\* C16: failures are swallowed only in the finalizer.  __del__ attempts
\* close() (it either releases the regions or its flush() was cut short)
\* and never reports a failure; close(), __exit__ and flush() report every
\* failure of the stream (a cut-short flush, regions not released), and a
\* stage of open that did not produce its region reports its failure and
\* leaves open failed.
C16_OnlyFinalizerSwallows ==
    /\ (op = "__del__") => (raised = "none" /\ (Released \/ Interrupted))
    /\ (op \in {"close", "__exit__", "flush"} /\ Interrupted)
          => raised \in {"TypeError", "ClosedStreamError"}
    /\ (op \in {"close", "__exit__"} /\ ~Released) => raised # "none"
    /\ (op \in {"_read_header", "_read_extended_header", "_read_data"} /\ pc = "failed")
          => raised # "none"
    /\ (op = "_read_header" /\ header = None) => (raised # "none" /\ pc = "failed")
    /\ (op = "_read_extended_header" /\ extended_header = None)
          => (raised # "none" /\ pc = "failed")
    /\ (op = "_read_data" /\ data = None /\ ~permissive)
          => (raised # "none" /\ pc = "failed")

\* a finalizer whose close() was cut short by the stream, and reported nothing
C16_Witness ==
    /\ op = "__del__" /\ raised = "none"
    /\ calls = << "seek", "write", "write", "write" >>
    /\ ~Released

\* the stream calls that move the position or change the content
Modifying == {"seek", "write", "truncate"}

\* C17: a failed open never modifies the stream: after a hard failure of
\* open on a writable instance, at any stage, the instance issues no seek,
\* write or truncate call, also when it is finalized.
C17_FailedOpenLeavesStream ==
    [][(pc = "failed" /\ ~read_only) =>
          /\ \A i \in DOMAIN calls : calls[i] \notin Modifying
          /\ \A i \in DOMAIN calls' : calls'[i] \notin Modifying
          /\ stream' = stream /\ pos' = pos]_vars

\* C18: flush() is all-or-nothing on a writable instance: a flush, direct
\* or through close(), either writes header, extended header and data and
\* truncates, or issues no write on the stream at all; it never stops after
\* writing only some of the regions, the degraded state with data absent
\* after a permissive open included.
C18_FlushAllOrNothing ==
    (op \in {"flush", "close", "__exit__", "__del__"} /\ ~read_only) =>
        \/ calls = FlushCalls
        \/ \A i \in DOMAIN calls : calls[i] # "write"

\* the stage of _read() the instance has just run
InRead == op \in {"_read_header", "_read_extended_header", "_read_data"}

\* strict open of the stream the instance was constructed on, the stream
\* answering as it answered this instance
StrictOpen ==
    _read(orig, FALSE,
          IF op = "_read_extended_header" THEN choice ELSE "all",
          IF op = "_read_data" THEN choice ELSE "all")

\* C19: permissive mode changes nothing on input that strict mode accepts:
\* where strict open of the stream succeeds, permissive open does not fail,
\* and it ends with the same header, byte order, extended header and data,
\* at the same stream position, with no warning.
C19_PermissiveAgreesWithStrict ==
    (InRead /\ permissive /\ StrictOpen.raised = "none") =>
        /\ pc # "failed" /\ raised = "none"
        /\ warnings = << >>
        /\ (pc = "open") =>
             /\ header = StrictOpen.header
             /\ extended_header = StrictOpen.extended_header
             /\ data = StrictOpen.data
             /\ pos = StrictOpen.pos

\* a permissive open of a big-endian stream with an extended header and a
\* data block, which strict open accepts
C19_Witness ==
    /\ op = "_read_data" /\ pc = "open" /\ permissive
    /\ StrictOpen.raised = "none"
    /\ Get(header).order = ">"
    /\ Len(Get(extended_header)) = 1
    /\ data # None /\ Len(Get(data).bytes) >= 2

=============================================================================
